---- MODULE Spec2Model ----
\* A model of dsc40graph.py: the _Graph base class, UndirectedGraph,
\* DirectedGraph and the edge views, driven by arbitrary call sequences.
EXTENDS Integers, FiniteSets, Sequences, TLC

\* ---------------------------------------------------------------- bounds
\* Node labels are 1..MaxLabel; at most MaxCalls mutating calls are made
\* (MaxViewCalls when the client also holds an edge view).
MaxLabel == 3
MaxCalls == 4
MaxViewCalls == 4

Labels == 1..MaxLabel

VARIABLES
    kind,             \* "undirected" | "directed": the class that was constructed
    adj,              \* self.adj: dict label -> set of labels
    back_adj,         \* self.back_adj (DirectedGraph only; absent = empty dict)
    number_of_edges,  \* self._number_of_edges
    pre,              \* the graph as it was when the last call started
    last,             \* the last call: its name, arguments and exception
    calls,            \* number of mutating calls made so far
    view              \* the edge view the client holds: whether one was obtained, its counter

vars == <<kind, adj, back_adj, number_of_edges, pre, last, calls, view>>

\* ---------------------------------------------------------------- dicts
EmptyDict == [x \in {} |-> {}]

DictSet(d, k, v) == [x \in (DOMAIN d) \cup {k} |-> IF x = k THEN v ELSE d[x]]

DictDel(d, k) == [x \in (DOMAIN d) \ {k} |-> d[x]]

\* d[k].add(m) / d[k].discard(m) for every k in ks (all keys of d)
SetAdd(d, k, m) == [d EXCEPT ![k] = @ \cup {m}]

DiscardAll(d, ks, m) == [x \in DOMAIN d |-> IF x \in ks THEN d[x] \ {m} ELSE d[x]]

\* The graph object as a record, and the outcome of a call on it.
G == [adj |-> adj, back_adj |-> back_adj, number_of_edges |-> number_of_edges]

Ok(g) == [adj |-> g.adj, back_adj |-> g.back_adj,
          number_of_edges |-> g.number_of_edges, raised |-> "none"]

Raise(g, exc) == [adj |-> g.adj, back_adj |-> g.back_adj,
                  number_of_edges |-> g.number_of_edges, raised |-> exc]

\* ---------------------------------------------------------------- _Graph
\* _Graph.nodes: the keys of self.adj
nodes(g) == DOMAIN g.adj

\* _EdgeView.__contains__: v in self._adj[u], False on KeyError
EdgeView_contains(g, u, v) == IF u \in DOMAIN g.adj THEN v \in g.adj[u] ELSE FALSE

\* _Graph.edges followed by _EdgeView.__len__: the counter copied into the view
EdgeView_len(g) == g.number_of_edges

\* _Graph.edges: the factory is given self.adj itself and the current value of
\* the counter; the held view keeps that number.
Graph_edges(g) == [made |-> TRUE, number_of_edges |-> g.number_of_edges]

\* The held view as an _EdgeView: _adj is the graph's own dict (the same
\* object, so it shows the current adjacency), _number_of_edges the copy.
ViewOf(w) == [adj |-> adj, number_of_edges |-> w.number_of_edges]

\* A variant of add_node that resets the adjacency of a known node.
Graph_add_node_reset(g, label) == Ok([g EXCEPT !.adj = DictSet(g.adj, label, {})])

\* len(view): the built-in calls _EdgeView.__len__ and raises ValueError when
\* the number it returns is negative.
builtin_len(w) ==
    IF EdgeView_len(w) >= 0
    THEN [raised |-> "none", ret |-> EdgeView_len(w)]
    ELSE [raised |-> "ValueError", ret |-> 0]

\* _Graph.add_node (inherited unchanged by both classes)
Graph_add_node(g, label) ==
    IF label \notin nodes(g)
    THEN Ok([g EXCEPT !.adj = DictSet(g.adj, label, {})])
    ELSE Ok(g)

\* ---------------------------------------------------------------- UndirectedGraph
\* Variants of add_edge with a plausible slip each: counting an edge that is
\* already there, linking one direction only, creating the endpoints before
\* the self-loop check.
UndirectedGraph_add_edge_always_count(g, u_label, v_label) ==
    IF u_label = v_label
    THEN Raise(g, "ValueError")
    ELSE LET a1 == IF u_label \in DOMAIN g.adj THEN g.adj ELSE DictSet(g.adj, u_label, {})
             a2 == IF v_label \in DOMAIN a1 THEN a1 ELSE DictSet(a1, v_label, {})
         IN  Ok([g EXCEPT !.adj = SetAdd(SetAdd(a2, u_label, v_label), v_label, u_label),
                          !.number_of_edges = g.number_of_edges + 1])

UndirectedGraph_add_edge_one_way(g, u_label, v_label) ==
    IF u_label = v_label
    THEN Raise(g, "ValueError")
    ELSE LET a1 == IF u_label \in DOMAIN g.adj THEN g.adj ELSE DictSet(g.adj, u_label, {})
             a2 == IF v_label \in DOMAIN a1 THEN a1 ELSE DictSet(a1, v_label, {})
             g2 == [g EXCEPT !.adj = a2]
         IN  IF ~EdgeView_contains(g2, u_label, v_label)
             THEN Ok([g2 EXCEPT !.adj = SetAdd(a2, u_label, v_label),
                                !.number_of_edges = g.number_of_edges + 1])
             ELSE Ok(g2)

UndirectedGraph_add_edge_create_first(g, u_label, v_label) ==
    LET a1 == IF u_label \in DOMAIN g.adj THEN g.adj ELSE DictSet(g.adj, u_label, {})
        a2 == IF v_label \in DOMAIN a1 THEN a1 ELSE DictSet(a1, v_label, {})
        g2 == [g EXCEPT !.adj = a2]
    IN  IF u_label = v_label
        THEN Raise(g2, "ValueError")
        ELSE IF ~EdgeView_contains(g2, u_label, v_label)
        THEN Ok([g2 EXCEPT !.adj = SetAdd(SetAdd(a2, u_label, v_label), v_label, u_label),
                           !.number_of_edges = g.number_of_edges + 1])
        ELSE Ok(g2)

UndirectedGraph_add_edge(g, u_label, v_label) ==
    IF u_label = v_label
    THEN Raise(g, "ValueError")
    ELSE LET a1 == IF u_label \in DOMAIN g.adj THEN g.adj ELSE DictSet(g.adj, u_label, {})
             a2 == IF v_label \in DOMAIN a1 THEN a1 ELSE DictSet(a1, v_label, {})
             g2 == [g EXCEPT !.adj = a2]
         IN  IF ~EdgeView_contains(g2, u_label, v_label)
             THEN Ok([g2 EXCEPT !.adj = SetAdd(SetAdd(a2, u_label, v_label), v_label, u_label),
                                !.number_of_edges = g.number_of_edges + 1])
             ELSE Ok(g2)

\* A variant of remove_node that decrements the counter once per call
\* instead of once per neighbor.
UndirectedGraph_remove_node_count_once(g, label) ==
    IF label \notin nodes(g)
    THEN {Ok(g)}
    ELSE LET live == g.adj[label] \cap DOMAIN g.adj
         IN  {Ok([g EXCEPT !.adj = DictDel(DiscardAll(g.adj, live, label), label),
                           !.number_of_edges = g.number_of_edges - 1])}

\* The loop visits self.adj[label] in an arbitrary order. A neighbor that is not
\* a key of self.adj raises KeyError after the neighbors visited before it were
\* handled; label inside its own set changes the set under iteration, which
\* raises RuntimeError at the next step of the loop.
UndirectedGraph_remove_node(g, label) ==
    IF label \notin nodes(g)
    THEN {Ok(g)}
    ELSE LET nbrs  == g.adj[label]
             stale == nbrs \ DOMAIN g.adj
             self  == nbrs \cap {label}
             live  == (nbrs \cap DOMAIN g.adj) \ {label}
             Visit(P) == [g EXCEPT !.adj = DiscardAll(g.adj, P, label),
                                   !.number_of_edges = g.number_of_edges - Cardinality(P)]
         IN  IF stale = {} /\ self = {}
             THEN {Ok([Visit(live) EXCEPT !.adj = DictDel(Visit(live).adj, label)])}
             ELSE {Raise(Visit(P), "KeyError") : P \in IF stale = {} THEN {} ELSE SUBSET live}
                  \cup {Raise(Visit(P \cup {label}), "RuntimeError") :
                            P \in IF self = {} THEN {} ELSE SUBSET live}

\* UndirectedGraph.neighbors: self.adj[u_label]
UndirectedGraph_neighbors(g, u_label) ==
    IF u_label \in DOMAIN g.adj
    THEN [raised |-> "none", ret |-> g.adj[u_label]]
    ELSE [raised |-> "KeyError", ret |-> {}]

\* ---------------------------------------------------------------- DirectedGraph
\* Variants of add_edge: counting only an absent edge, creating the backward
\* entry of v only, leaving u out of v's backward set.
DirectedGraph_add_edge_if_absent(g, u_label, v_label) ==
    LET a1 == IF u_label \in DOMAIN g.adj THEN g.adj ELSE DictSet(g.adj, u_label, {})
        a2 == IF v_label \in DOMAIN a1 THEN a1 ELSE DictSet(a1, v_label, {})
        b1 == IF u_label \in DOMAIN g.back_adj THEN g.back_adj
                                                ELSE DictSet(g.back_adj, u_label, {})
        b2 == IF v_label \in DOMAIN b1 THEN b1 ELSE DictSet(b1, v_label, {})
    IN  Ok([adj |-> SetAdd(a2, u_label, v_label),
            back_adj |-> SetAdd(b2, v_label, u_label),
            number_of_edges |-> IF v_label \in a2[u_label] THEN g.number_of_edges
                                                           ELSE g.number_of_edges + 1])

DirectedGraph_add_edge_no_back_key(g, u_label, v_label) ==
    LET a1 == IF u_label \in DOMAIN g.adj THEN g.adj ELSE DictSet(g.adj, u_label, {})
        a2 == IF v_label \in DOMAIN a1 THEN a1 ELSE DictSet(a1, v_label, {})
        b2 == IF v_label \in DOMAIN g.back_adj THEN g.back_adj
                                                ELSE DictSet(g.back_adj, v_label, {})
    IN  Ok([adj |-> SetAdd(a2, u_label, v_label),
            back_adj |-> SetAdd(b2, v_label, u_label),
            number_of_edges |-> g.number_of_edges + 1])

DirectedGraph_add_edge_no_back(g, u_label, v_label) ==
    LET a1 == IF u_label \in DOMAIN g.adj THEN g.adj ELSE DictSet(g.adj, u_label, {})
        a2 == IF v_label \in DOMAIN a1 THEN a1 ELSE DictSet(a1, v_label, {})
        b1 == IF u_label \in DOMAIN g.back_adj THEN g.back_adj
                                                ELSE DictSet(g.back_adj, u_label, {})
        b2 == IF v_label \in DOMAIN b1 THEN b1 ELSE DictSet(b1, v_label, {})
    IN  Ok([adj |-> SetAdd(a2, u_label, v_label),
            back_adj |-> b2,
            number_of_edges |-> g.number_of_edges + 1])

DirectedGraph_add_edge(g, u_label, v_label) ==
    LET a1 == IF u_label \in DOMAIN g.adj THEN g.adj ELSE DictSet(g.adj, u_label, {})
        a2 == IF v_label \in DOMAIN a1 THEN a1 ELSE DictSet(a1, v_label, {})
        b1 == IF u_label \in DOMAIN g.back_adj THEN g.back_adj
                                                ELSE DictSet(g.back_adj, u_label, {})
        b2 == IF v_label \in DOMAIN b1 THEN b1 ELSE DictSet(b1, v_label, {})
    IN  Ok([adj |-> SetAdd(a2, u_label, v_label),
            back_adj |-> SetAdd(b2, v_label, u_label),
            number_of_edges |-> g.number_of_edges + 1])

\* A variant of remove_node without the loop over the parents.
DirectedGraph_remove_node_no_parent_loop(g, node) ==
    IF node \notin nodes(g)
    THEN {Ok(g)}
    ELSE IF node \notin DOMAIN g.back_adj
    THEN {Raise(g, "KeyError")}
    ELSE LET g1 == IF node \in g.back_adj[node]
                   THEN [adj |-> DiscardAll(g.adj, {node}, node),
                         back_adj |-> DiscardAll(g.back_adj, {node}, node),
                         number_of_edges |-> g.number_of_edges - 1]
                   ELSE g
         IN  {Ok([g1 EXCEPT !.number_of_edges =
                                g1.number_of_edges - Cardinality(g1.adj[node]),
                            !.adj = DictDel(g1.adj, node)])}

\* self.back_adj[node] raises KeyError when node has no backward entry. The
\* loop visits the parents in an arbitrary order; a parent that is not a key of
\* self.adj raises KeyError after the parents visited before it were handled.
DirectedGraph_remove_node(g, node) ==
    IF node \notin nodes(g)
    THEN {Ok(g)}
    ELSE IF node \notin DOMAIN g.back_adj
    THEN {Raise(g, "KeyError")}
    ELSE LET g1 == IF node \in g.back_adj[node]
                   THEN [adj |-> DiscardAll(g.adj, {node}, node),
                         back_adj |-> DiscardAll(g.back_adj, {node}, node),
                         number_of_edges |-> g.number_of_edges - 1]
                   ELSE g
             parents == g1.back_adj[node]
             stale   == parents \ DOMAIN g1.adj
             live    == parents \cap DOMAIN g1.adj
             Visit(P) == [g1 EXCEPT !.adj = DiscardAll(g1.adj, P, node),
                                    !.number_of_edges = g1.number_of_edges - Cardinality(P)]
             g2 == Visit(live)
         IN  IF stale = {}
             THEN {Ok([g2 EXCEPT !.number_of_edges =
                                     g2.number_of_edges - Cardinality(g2.adj[node]),
                                 !.adj = DictDel(g2.adj, node)])}
             ELSE {Raise(Visit(P), "KeyError") : P \in SUBSET live}

\* DirectedGraph.predecessors: self.back_adj[node]
DirectedGraph_predecessors(g, node) ==
    IF node \in DOMAIN g.back_adj
    THEN [raised |-> "none", ret |-> g.back_adj[node]]
    ELSE [raised |-> "KeyError", ret |-> {}]

\* DirectedGraph.successors: self.adj[node]
DirectedGraph_successors(g, node) ==
    IF node \in DOMAIN g.adj
    THEN [raised |-> "none", ret |-> g.adj[node]]
    ELSE [raised |-> "KeyError", ret |-> {}]

\* DirectedGraph.neighbors: self.successors(node)
DirectedGraph_neighbors(g, node) == DirectedGraph_successors(g, node)

\* ---------------------------------------------------------------- edge views
\* The orders in which the members of a set can be visited.
Orders(S) == {p \in [1..Cardinality(S) -> S] : \A i, j \in 1..Cardinality(S) : p[i] = p[j] => i = j}

\* A variant of the key that keeps the order of the endpoints.
EdgeKey_tuple(u, v) == <<u, v>>

\* frozenset((u, v)): the key under which an emitted edge is remembered
EdgeKey(u, v) == {u, v}

\* The inner loop of _UndirectedEdgeView.__iter__ for one u: the pairs (u, v)
\* whose key is not in seen, in the order p of u's neighbors.
RECURSIVE YieldFrom(_, _, _, _)
YieldFrom(u, p, i, seen) ==
    IF i > Len(p) THEN <<>>
    ELSE IF EdgeKey(u, p[i]) \in seen
    THEN YieldFrom(u, p, i + 1, seen)
    ELSE <<(<<u, p[i]>>)>> \o YieldFrom(u, p, i + 1, seen \cup {EdgeKey(u, p[i])})

\* The outer loop over self._adj.items() with the keys in todo still to come.
\* Neither the order of the keys nor the order inside a set is tracked by the
\* model, so every order is possible: the result is the set of sequences the
\* generator can yield.
RECURSIVE UndirectedYields(_, _, _)
UndirectedYields(g, todo, seen) ==
    IF todo = {} THEN {<<>>}
    ELSE UNION {
             UNION { {YieldFrom(u, p, 1, seen) \o rest :
                        rest \in UndirectedYields(g, todo \ {u},
                                     seen \cup {EdgeKey(u, v) : v \in g.adj[u]})}
                     : p \in Orders(g.adj[u]) }
             : u \in todo }

\* _UndirectedEdgeView.__iter__ on a fresh view of g
UndirectedEdgeView_iter(g) == UndirectedYields(g, DOMAIN g.adj, {})

\* ---------------------------------------------------------------- the calls
\* A mutating call: the graph becomes the outcome, the call is recorded.
Mutate(op, args, out) ==
    /\ calls < MaxCalls
    /\ adj' = out.adj
    /\ back_adj' = out.back_adj
    /\ number_of_edges' = out.number_of_edges
    /\ pre' = G
    /\ last' = [op |-> op, args |-> args, raised |-> out.raised]
    /\ calls' = calls + 1
    /\ kind' = kind
    /\ view' = view

add_node(label) ==
    Mutate("add_node", <<label>>, Graph_add_node(G, label))

U_add_edge(u, v) ==
    /\ kind = "undirected"
    /\ Mutate("add_edge", <<u, v>>, UndirectedGraph_add_edge(G, u, v))

U_remove_node(label) ==
    /\ kind = "undirected"
    /\ \E out \in UndirectedGraph_remove_node(G, label) :
           Mutate("remove_node", <<label>>, out)

D_add_edge(u, v) ==
    /\ kind = "directed"
    /\ Mutate("add_edge", <<u, v>>, DirectedGraph_add_edge(G, u, v))

D_remove_node(node) ==
    /\ kind = "directed"
    /\ \E out \in DirectedGraph_remove_node(G, node) :
           Mutate("remove_node", <<node>>, out)

\* g.edges: the client obtains a view and keeps it
edges ==
    /\ view' = Graph_edges(G)
    /\ UNCHANGED <<kind, adj, back_adj, number_of_edges, pre, last, calls>>

\* _Graph.__init__ / DirectedGraph.__init__: an empty graph of either class
Init ==
    /\ kind \in {"undirected", "directed"}
    /\ adj = EmptyDict
    /\ back_adj = EmptyDict
    /\ number_of_edges = 0
    /\ pre = [adj |-> EmptyDict, back_adj |-> EmptyDict, number_of_edges |-> 0]
    /\ last = [op |-> "init", args |-> <<>>, raised |-> "none"]
    /\ calls = 0
    /\ view = [made |-> FALSE, number_of_edges |-> 0]

Next ==
    \/ \E x \in Labels : add_node(x)
    \/ \E u, v \in Labels : U_add_edge(u, v)
    \/ \E x \in Labels : U_remove_node(x)
    \/ \E u, v \in Labels : D_add_edge(u, v)
    \/ \E x \in Labels : D_remove_node(x)

Spec == Init /\ [][Next]_vars

\* A client that also obtains edge views, at any moment and any number of
\* times, while it makes its first MaxViewCalls mutating calls.
NextView ==
    \/ calls < MaxViewCalls /\ Next
    \/ edges

SpecView == Init /\ [][NextView]_vars

\* ---------------------------------------------------------------- properties
\* The edges that are really there, read off the forward adjacency sets.
OrderedPairs(g) == {p \in Labels \X Labels : p[1] \in DOMAIN g.adj /\ p[2] \in g.adj[p[1]]}

UnorderedPairs(g) == {{p[1], p[2]} : p \in OrderedPairs(g)}

Undirected == kind = "undirected"

Directed == kind = "directed"

\* C1: on an undirected graph len(edges) of a fresh edge view equals the
\* number of distinct unordered pairs {u,v} with v in adj[u].
C1_UndirectedEdgeCount ==
    Undirected => EdgeView_len(G) = Cardinality(UnorderedPairs(G))

\* a removal took some edges away and left some
C1_Witness ==
    /\ Undirected
    /\ last.op = "remove_node"
    /\ number_of_edges < pre.number_of_edges
    /\ number_of_edges >= 1

\* C2: on a directed graph len(edges) of a fresh edge view equals the number
\* of distinct ordered pairs (u,v) with v in adj[u].
C2_DirectedEdgeCount ==
    Directed => EdgeView_len(G) = Cardinality(OrderedPairs(G))

\* C3: on an undirected graph, for all known nodes u and v, v is in
\* neighbors(u) if and only if u is in neighbors(v).
C3_UndirectedSymmetry ==
    Undirected =>
        \A u, v \in nodes(G) :
            v \in UndirectedGraph_neighbors(G, u).ret
                <=> u \in UndirectedGraph_neighbors(G, v).ret

\* a removal left an edge between two remaining nodes
C3_Witness ==
    /\ Undirected
    /\ last.op = "remove_node"
    /\ last.args[1] \in nodes(pre)
    /\ pre.adj[last.args[1]] # {}
    /\ \E u, v \in nodes(G) : v \in adj[u]

\* C4: on a directed graph, for all labels u and v, v is in the forward
\* adjacency set of u if and only if u is in the backward adjacency set of v.
C4_ForwardBackwardConsistency ==
    Directed =>
        \A u, v \in Labels :
            (u \in DOMAIN adj /\ v \in adj[u])
                <=> (v \in DOMAIN back_adj /\ u \in back_adj[v])

\* C5: on a directed graph the key set of adj is the key set of back_adj.
C5_KeySetIdentity ==
    Directed => DOMAIN adj = DOMAIN back_adj

\* C6: undirected add_edge(x, x) raises ValueError in every state and changes
\* nothing: nodes, adjacency sets and counter are as before, x is not created.
C6_SelfLoopRejected ==
    Undirected =>
        /\ \A x \in Labels : UndirectedGraph_add_edge(G, x, x) = Raise(G, "ValueError")
        /\ (last.op = "add_edge" /\ last.args[1] = last.args[2]) =>
               (last.raised = "ValueError" /\ G = pre)

\* add_edge(x, x) was called on a graph with an edge and without x
C6_Witness ==
    /\ Undirected
    /\ last.op = "add_edge"
    /\ last.args[1] = last.args[2]
    /\ last.raised = "ValueError"
    /\ last.args[1] \notin nodes(G)
    /\ number_of_edges >= 1

\* C7: on either variant add_node, remove_node and (u,v) in edges never raise;
\* remove_node of an unknown label leaves the state unchanged and containment
\* with an unknown u is false.
C7_Totality ==
    /\ last.op \in {"add_node", "remove_node"} => last.raised = "none"
    /\ (last.op = "remove_node" /\ last.args[1] \notin nodes(pre)) => G = pre
    /\ \A u, v \in Labels : u \notin nodes(G) => EdgeView_contains(G, u, v) = FALSE

\* C8: directed remove_node(n) of a known node n leaves n out of the keys of
\* both maps and out of every forward and backward set, and lowers the
\* counter by the number of distinct ordered pairs that had n as an endpoint.
C8_DirectedRemoveNode ==
    (Directed /\ last.op = "remove_node" /\ last.args[1] \in nodes(pre)) =>
        LET n == last.args[1]
            incident == {p \in OrderedPairs(pre) : p[1] = n \/ p[2] = n}
        IN  /\ n \notin DOMAIN adj
            /\ n \notin DOMAIN back_adj
            /\ \A u \in DOMAIN adj : n \notin adj[u]
            /\ \A u \in DOMAIN back_adj : n \notin back_adj[u]
            /\ number_of_edges = pre.number_of_edges - Cardinality(incident)

\* C9: undirected remove_node(x) of a known node x removes x from the nodes
\* and from each adjacency set, lowers the counter by the former degree of x
\* and leaves every other node and every edge between other nodes as it was.
C9_UndirectedCascadingRemoval ==
    (Undirected /\ last.op = "remove_node" /\ last.args[1] \in nodes(pre)) =>
        LET x == last.args[1]
        IN  /\ last.raised = "none"
            /\ nodes(G) = nodes(pre) \ {x}
            /\ \A y \in nodes(G) : adj[y] = pre.adj[y] \ {x}
            /\ number_of_edges = pre.number_of_edges - Cardinality(pre.adj[x])
            /\ UnorderedPairs(G) = {e \in UnorderedPairs(pre) : x \notin e}
            /\ (UnorderedPairs(pre) = {{1, 2}, {2, 3}} /\ nodes(pre) = {1, 2, 3} /\ x = 2)
                   => (nodes(G) = {1, 3} /\ UnorderedPairs(G) = {} /\ number_of_edges = 0)

\* a node of degree two was removed and an edge between two others remains
C9_Witness ==
    /\ Undirected
    /\ last.op = "remove_node"
    /\ last.args[1] \in nodes(pre)
    /\ Cardinality(pre.adj[last.args[1]]) = 2
    /\ number_of_edges = 1
    /\ UnorderedPairs(G) # {}

\* C10: neighbors, successors and predecessors raise the lookup error exactly
\* when the label is not a known node, and return a set when it is.
C10_LookupFollowsMembership ==
    \A x \in Labels :
        /\ Undirected =>
               (UndirectedGraph_neighbors(G, x).raised = "KeyError" <=> x \notin nodes(G))
        /\ Directed =>
               /\ DirectedGraph_successors(G, x).raised = "KeyError" <=> x \notin nodes(G)
               /\ DirectedGraph_neighbors(G, x).raised = "KeyError" <=> x \notin nodes(G)
               /\ DirectedGraph_predecessors(G, x).raised = "KeyError" <=> x \notin nodes(G)

\* C11: iterating a fresh undirected edge view yields every unordered pair
\* {u,v} with v in adj[u] exactly once, in one orientation, and nothing else,
\* so the number of yielded items equals len(edges).
C11_UndirectedIteration ==
    Undirected =>
        \A s \in UndirectedEdgeView_iter(G) :
            /\ Len(s) = EdgeView_len(G)
            /\ \A i \in 1..Len(s) : s[i] \in OrderedPairs(G)
            /\ \A e \in UnorderedPairs(G) :
                   Cardinality({i \in 1..Len(s) : {s[i][1], s[i][2]} = e}) = 1

\* the edges are {1,2} and {2,3}, and some order yields the first as (2,1)
C11_Witness ==
    /\ Undirected
    /\ UnorderedPairs(G) = {{1, 2}, {2, 3}}
    /\ \E s \in UndirectedEdgeView_iter(G) : Len(s) = 2 /\ s[1] = <<2, 1>>

\* C12: on a directed graph the edge counter is never negative.
C12_DirectedCounterNonNegative ==
    Directed => number_of_edges >= 0

\* C13: undirected add_edge of an edge that already exists, in either
\* orientation, leaves the nodes, every adjacency set and the counter unchanged.
C13_UndirectedAddEdgeIdempotent ==
    Undirected =>
        /\ \A u, v \in Labels :
               EdgeView_contains(G, u, v) =>
                   /\ UndirectedGraph_add_edge(G, u, v) = Ok(G)
                   /\ UndirectedGraph_add_edge(G, v, u) = Ok(G)
        /\ (last.op = "add_edge" /\ EdgeView_contains(pre, last.args[1], last.args[2]))
               => (last.raised = "none" /\ G = pre)

\* add_edge(v, u) was called on a graph that held the edge as (u, v) and more
C13_Witness ==
    /\ Undirected
    /\ last.op = "add_edge"
    /\ EdgeView_contains(pre, last.args[2], last.args[1])
    /\ pre.number_of_edges = 2
    /\ G = pre

C15_AddNodeIdempotent ==
    /\ \A x \in Labels :
           LET once == Graph_add_node(G, x)
           IN  /\ once.raised = "none"
               /\ Graph_add_node(once, x) = once
               /\ x \in nodes(G) => once = Ok(G)
    /\ (last.op = "add_node" /\ last.args[1] \in nodes(pre)) =>
           (last.raised = "none" /\ G = pre)

\* add_node was called on a node that had neighbors
C15_Witness ==
    /\ last.op = "add_node"
    /\ last.args[1] \in nodes(pre)
    /\ pre.adj[last.args[1]] # {}
    /\ adj[last.args[1]] = pre.adj[last.args[1]]

\* C16: len of a held edge view keeps the edge count of the state it was
\* obtained in across later mutating calls, while its membership test follows
\* the current adjacency; a view obtained anew reports the current counter.
C16_ViewSnapshot ==
    [][ /\ (view.made /\ calls' = calls + 1) =>
               /\ builtin_len(ViewOf(view))' = builtin_len(ViewOf(view))
               /\ \A u, v \in Labels :
                      EdgeView_contains(ViewOf(view), u, v)'
                          = (u \in DOMAIN adj' /\ v \in adj'[u])
        /\ (calls' = calls) =>
               builtin_len(ViewOf(view))' = [raised |-> "none", ret |-> number_of_edges']
      ]_vars

\* C17: after a successful add_edge(u,v) both endpoints are known (on a
\* directed graph keys of both maps), every node known before is still known
\* and the adjacency sets of all other nodes are unchanged.
C17_AddEdgeFrame ==
    (last.op = "add_edge" /\ last.raised = "none") =>
        LET u == last.args[1]
            v == last.args[2]
        IN  /\ nodes(G) = nodes(pre) \cup {u, v}
            /\ \A w \in nodes(pre) \ {u, v} : adj[w] = pre.adj[w]
            /\ Directed =>
                   /\ DOMAIN back_adj = DOMAIN pre.back_adj \cup {u, v}
                   /\ \A w \in DOMAIN pre.back_adj \ {u, v} : back_adj[w] = pre.back_adj[w]

\* add_edge created its first endpoint next to a third node that has neighbors
C17_Witness ==
    /\ last.op = "add_edge"
    /\ last.raised = "none"
    /\ last.args[1] \notin nodes(pre)
    /\ \E w \in nodes(pre) \ {last.args[1], last.args[2]} : adj[w] # {}

\* C18: a directed remove_node that raises leaves the forward map, the
\* backward map and the counter as they were before the call.
C18_FailedRemoveAtomic ==
    (Directed /\ last.op = "remove_node" /\ last.raised # "none") => G = pre

\* C19: every member of an adjacency set is a key of adj, on both variants
\* and after remove_node calls that raised, so containment and iteration
\* report no edge with an unknown endpoint.
C19_NoDanglingForward ==
    /\ \A u \in DOMAIN adj : adj[u] \subseteq DOMAIN adj
    /\ \A u, v \in Labels : EdgeView_contains(G, u, v) => {u, v} \subseteq nodes(G)
    /\ Undirected =>
           \A s \in UndirectedEdgeView_iter(G) :
               \A i \in 1..Len(s) : {s[i][1], s[i][2]} \subseteq nodes(G)

\* a directed remove_node raised after changing the graph; its node is still
\* a key of adj
C19_Witness ==
    /\ Directed
    /\ last.op = "remove_node"
    /\ last.raised = "KeyError"
    /\ G # pre
    /\ last.args[1] \in nodes(G)

\* C20: on a directed graph, if v is in adj[u] then v is a key of back_adj and
\* u is in back_adj[v].
C20_ForwardInBackward ==
    Directed =>
        \A u \in DOMAIN adj : \A v \in adj[u] :
            v \in DOMAIN back_adj /\ u \in back_adj[v]

\* the backward map holds an edge the forward map lacks, next to a real edge
C20_Witness ==
    /\ Directed
    /\ \E u, v \in Labels :
           /\ v \in DOMAIN back_adj /\ u \in back_adj[v]
           /\ ~EdgeView_contains(G, u, v)
    /\ \E u \in DOMAIN adj : \E v \in adj[u] : u \in back_adj[v]

====
